---- MODULE Spec2Model ----
(***************************************************************************)
(* A model of the limit order book of src/main.py: one OrderBook, its      *)
(* three lifecycle dicts, its two heapq heaps of Order objects, and the    *)
(* module-level order number generator.                                    *)
(*                                                                         *)
(* Order objects live in `orders`, keyed by a reference; the dicts and the *)
(* heaps hold references, as in Python, so that a quantity changed through *)
(* one alias is seen through the others.  The reference of an object is    *)
(* its order_number, which the generator hands out once per object.        *)
(*                                                                         *)
(* Four specifications share the operations: Spec (every call, rejected    *)
(* ones included), SpecTrading (the calls that change the book),           *)
(* SpecShared (two OrderBooks given the same calls, and a third instance   *)
(* drawing order numbers between them) and SpecEager (the book beside a    *)
(* reference book that removes canceled orders at once).                   *)
(*                                                                         *)
(* Python strings are TLA+ strings; a non-ASCII character is written       *)
(* <U+XXXX> (its code point), which keeps string equality what it is in    *)
(* Python.                                                                 *)
(***************************************************************************)
EXTENDS Integers, Sequences, FiniteSets, TLC

\* ------------------------------------------------------------- bounds
\* The order ids in use under Spec, whose callers make every call, rejected
\* ones included, and the orders accepted under SpecTrading, whose callers
\* make only the calls that change the book.
NumIds == 2
MaxOrders == 3
MaxPrice == 2
MaxQuantity == 2
\* The placements made on other OrderBook instances under SpecShared.
MaxOtherPlacements == 1

IdNames == <<"A", "B", "C", "D", "E", "F">>
OrderIds == {IdNames[i] : i \in 1..NumIds}

\* The arguments (side, price, quantity) callers pass: those place_order
\* accepts, and those it rejects, one per test it makes.
WellFormedArgs == {"Buy", "sell"} \X (1..MaxPrice) \X (1..MaxQuantity)
MalformedArgs ==
  {<<"Hold", 1, 1>>, <<"", 1, 1>>, <<"Buy", 0, 1>>, <<"Buy", -1, 1>>,
   <<"sell", 1, 0>>, <<"sell", 1, -1>>, <<"Hold", -1, -1>>}

VARIABLES
  order_number_generator, \* the next value of count(start=1)
  orders,                 \* the Order objects: reference -> fields
  active_orders,          \* dict order_id -> reference
  filled_orders,          \* dict order_id -> reference
  canceled_orders,        \* dict order_id -> reference
  heap_buy_orders,        \* list of references, heap-ordered by Order.__lt__
  heap_sell_orders,       \* list of references, heap-ordered by Order.__lt__
  result,                 \* the outcome of the last call
  matches,                \* history: the matches of the last call, in order
  original_quantity,      \* history: reference -> quantity at construction
  matched_total,          \* history: reference -> quantity in match descriptors
  loop,                   \* history: the while loop of the last call
  twin,                   \* a second OrderBook, given the same calls
  reference               \* a reference book with eager removal, given them too

book == <<orders, active_orders, filled_orders, canceled_orders,
          heap_buy_orders, heap_sell_orders>>
vars == <<order_number_generator, orders, active_orders, filled_orders,
          canceled_orders, heap_buy_orders, heap_sell_orders, result, matches,
          original_quantity, matched_total, loop, twin, reference>>

\* The book as one value, for the operators that work on any OrderBook.
Book ==
  [orders |-> orders, active_orders |-> active_orders,
   filled_orders |-> filled_orders, canceled_orders |-> canceled_orders,
   heap_buy_orders |-> heap_buy_orders, heap_sell_orders |-> heap_sell_orders]

\* ------------------------------------------------------------- Python
\* Truthiness: bool(x) of a number, and of a str.
Truthy(x) == x # 0
TruthyStr(x) == x # ""

\* str.lower() on the side strings the model submits.
Lower(side) ==
  CASE side = "Buy" -> "buy"
    [] side = "Hold" -> "hold"
    [] OTHER -> side

\* str(n) of an int, as an f-string formats it.
Str(n) == ToString(n)

\* min(a, b)
Min(a, b) == IF a <= b THEN a ELSE b

\* d with key k removed (del d[k]).
DictDelKeepsKey(d, k) == d
DictDel(d, k) == [x \in DOMAIN d \ {k} |-> d[x]]

\* d with d[k] = v.
DictSetOnly(dict, key, value) == (key :> value)
DictSet(d, k, v) == [x \in DOMAIN d \cup {k} |-> IF x = k THEN v ELSE d[x]]

\* (a1, a2) < (b1, b2) on tuples of numbers.
TupleLess(a1, a2, b1, b2) == a1 < b1 \/ (a1 = b1 /\ a2 < b2)

\* ------------------------------------------------------------- Order
\* Order.__lt__(self, other), on the objects mem[self] and mem[other].
OrderLtLifo(mem, self, other) ==
  IF mem[self].side = "buy"
  THEN TupleLess(mem[other].price, mem[other].order_number,
                 mem[self].price, mem[self].order_number)
  ELSE TupleLess(mem[self].price, mem[self].order_number,
                 mem[other].price, mem[other].order_number)
OrderLt(mem, self, other) ==
  IF mem[self].side = "buy"
  THEN TupleLess(mem[other].price, -mem[other].order_number,
                 mem[self].price, -mem[self].order_number)
  ELSE TupleLess(mem[self].price, mem[self].order_number,
                 mem[other].price, mem[other].order_number)

\* The ValueError message of Order.__init__, or "" when it accepts.
OrderInitErrorPriceOnly(side, price, quantity) ==
  IF Lower(side) \notin {"buy", "sell"}
  THEN "Invalid side: " \o side \o ". Must be \"buy\" or \"sell\""
  ELSE IF price <= 0
  THEN "Price and quantity must be positive values"
  ELSE ""
OrderInitError(side, price, quantity) ==
  IF Lower(side) \notin {"buy", "sell"}
  THEN "Invalid side: " \o side \o ". Must be \"buy\" or \"sell\""
  ELSE IF price <= 0 \/ quantity <= 0
  THEN "Price and quantity must be positive values"
  ELSE ""

\* ------------------------------------------------------------- heapq
\* Lists are 0-based in Python: At and Put keep the code's index arithmetic.
At(heap, i) == heap[i + 1]
Put(heap, i, v) == [heap EXCEPT ![i + 1] = v]

\* heapq._siftdown(heap, startpos, pos), newitem being heap[pos].
RECURSIVE siftdown(_, _, _, _, _)
siftdown(mem, heap, startpos, pos, newitem) ==
  IF pos > startpos
  THEN LET parentpos == (pos - 1) \div 2
           parent == At(heap, parentpos)
       IN  IF OrderLt(mem, newitem, parent)
           THEN siftdown(mem, Put(heap, pos, parent), startpos, parentpos, newitem)
           ELSE Put(heap, pos, newitem)
  ELSE Put(heap, pos, newitem)

\* heapq._siftup(heap, pos): the smaller child bubbles up until a leaf is
\* hit, then newitem sifts down from there.
RECURSIVE siftup(_, _, _, _, _)
siftup(mem, heap, startpos, pos, newitem) ==
  LET endpos == Len(heap)
      leftpos == 2 * pos + 1
      rightpos == leftpos + 1
      childpos == IF rightpos < endpos
                     /\ ~OrderLt(mem, At(heap, leftpos), At(heap, rightpos))
                  THEN rightpos
                  ELSE leftpos
  IN  IF leftpos < endpos
      THEN siftup(mem, Put(heap, pos, At(heap, childpos)), startpos, childpos, newitem)
      ELSE siftdown(mem, Put(heap, pos, newitem), startpos, pos, newitem)

\* heapq.heappush(heap, item)
heappushForgotten(mem, heap, item) == heap
heappush(mem, heap, item) ==
  siftdown(mem, Append(heap, item), 0, Len(heap), item)

\* The heap after heapq.heappop(heap); the item returned is heap[0].
heappop(mem, heap) ==
  LET lastelt == heap[Len(heap)]
      rest == SubSeq(heap, 1, Len(heap) - 1)
  IN  IF rest # <<>>
      THEN siftup(mem, Put(rest, 0, lastelt), 0, 0, lastelt)
      ELSE rest

\* ------------------------------------------------------------- OrderBook
\* The crossing test place_order passes to _process_order: the first
\* argument is the incoming order's price, the second the opposite order's.
conditionSwapped(side, price, opposite_price) ==
  IF side = "buy" THEN price <= opposite_price ELSE price >= opposite_price
conditionStrict(side, price, opposite_price) ==
  IF side = "buy" THEN price > opposite_price ELSE price < opposite_price
condition(side, price, opposite_price) ==
  IF side = "buy" THEN price >= opposite_price ELSE price <= opposite_price

\* opposite_order.order_id not in self.active_orders
NeverStale(active, order_id) == FALSE
NotActive(active, order_id) == order_id \notin DOMAIN active

\* matched_quantity = min(order.quantity, opposite_order.quantity)
MatchedQuantityIncoming(quantity, opposite_quantity) == quantity
MatchedQuantityOpposite(quantity, opposite_quantity) == opposite_quantity
MatchedQuantityOne(quantity, opposite_quantity) == 1
MatchedQuantity(quantity, opposite_quantity) == Min(quantity, opposite_quantity)

\* f'{opposite_order.order_id} ({matched_quantity} @ {opposite_order.price})'
Descriptor(order_id, matched_quantity, price) ==
  order_id \o " (" \o Str(matched_quantity) \o " @ " \o Str(price) \o ")"

\* The while loop of _process_order for the incoming object `order`.  s holds
\* what the loop reads and writes: the objects, active_orders, filled_orders,
\* the opposite heap, matched_orders, and three histories: the matches made
\* (with active_orders as it was at that moment), the iterations run, and
\* what each iteration did: "stale" (discarded the entry of an order no
\* longer active), "fill" (matched the resting order down to 0 and removed
\* it), "partial" (matched it and pushed it back) or "break".
RECURSIVE MatchLoop(_, _)
MatchLoop(s, order) ==
  IF ~(s.opposite # <<>> /\ Truthy(s.orders[order].quantity))
  THEN s
  ELSE
    LET opposite_order == At(s.opposite, 0)
        opp == s.orders[opposite_order]
        inc == s.orders[order]
        t == [s EXCEPT !.iterations = @ + 1]
    IN  IF NotActive(s.active, opp.order_id)
        THEN MatchLoop([t EXCEPT !.opposite = heappop(s.orders, s.opposite),
                                 !.steps = Append(@, "stale")], order)
        ELSE IF ~condition(inc.side, inc.price, opp.price)
        THEN [t EXCEPT !.steps = Append(@, "break")]
        ELSE
          LET popped == heappop(s.orders, s.opposite)
              matched_quantity == MatchedQuantity(inc.quantity, opp.quantity)
              mem == [s.orders EXCEPT
                        ![order].quantity = @ - matched_quantity,
                        ![opposite_order].quantity = @ - matched_quantity]
              match == [order_id |-> opp.order_id,
                        ref |-> opposite_order,
                        quantity |-> matched_quantity,
                        price |-> opp.price,
                        active_then |-> s.active]
              u == [t EXCEPT
                      !.orders = mem,
                      !.matched_orders = Append(@, Descriptor(opp.order_id,
                                                   matched_quantity, opp.price)),
                      !.trace = Append(@, match)]
          IN  IF Truthy(mem[opposite_order].quantity)
              THEN MatchLoop([u EXCEPT !.opposite = heappush(mem, popped, opposite_order),
                                       !.steps = Append(@, "partial")],
                             order)
              ELSE MatchLoop([u EXCEPT
                                !.opposite = popped,
                                !.steps = Append(@, "fill"),
                                !.filled = DictSet(@, opp.order_id, opposite_order),
                                !.active = DictDel(@, opp.order_id)],
                             order)

\* ' and '.join(match_items)
RECURSIVE Join(_)
Join(items) ==
  IF Len(items) = 1 THEN items[1]
  ELSE items[1] \o " and " \o Join(Tail(items))

\* The string place_order returns for the list _process_order returned.
PlaceResultSwapped(match_items, quantity) ==
  IF match_items = <<>> THEN "OK"
  ELSE (IF Truthy(quantity) THEN "Fully" ELSE "Partially")
       \o " matched with " \o Join(match_items)
PlaceResult(match_items, quantity) ==
  IF match_items = <<>> THEN "OK"
  ELSE (IF Truthy(quantity) THEN "Partially" ELSE "Fully")
       \o " matched with " \o Join(match_items)

\* The duplicate-id test of place_order.
PlacedActiveOnly(order_id) == order_id \in DOMAIN active_orders
PlacedNotCanceled(order_id) ==
  \/ order_id \in DOMAIN active_orders
  \/ order_id \in DOMAIN filled_orders
AlreadyPlaced(order_id) ==
  \/ order_id \in DOMAIN active_orders
  \/ order_id \in DOMAIN filled_orders
  \/ order_id \in DOMAIN canceled_orders

\* The loop history of a call that does not reach _process_order.
NoLoop == [steps |-> <<>>, iterations |-> 0, entries |-> 0]

\* A call that raises ValueError(message): nothing else changes.
Raise(call, order_id, message) ==
  /\ result' = [call |-> call, order_id |-> order_id, raised |-> TRUE,
                value |-> message]
  /\ matches' = <<>>
  /\ loop' = NoLoop
  /\ UNCHANGED <<order_number_generator, orders, active_orders, filled_orders,
                 canceled_orders, heap_buy_orders, heap_sell_orders,
                 original_quantity, matched_total>>

\* The cumulative matched quantities after the matches of one call by `order`.
RECURSIVE Credit(_, _, _)
Credit(total, trace, order) ==
  IF trace = <<>> THEN total
  ELSE Credit([total EXCEPT ![order] = @ + trace[1].quantity,
                            ![trace[1].ref] = @ + trace[1].quantity],
              Tail(trace), order)

\* The checks place_order makes before it changes anything: the message of
\* the ValueError it raises, or "" when the order is accepted.
PlaceError(order_id, side, price, quantity) ==
  IF ~(TruthyStr(order_id) /\ TruthyStr(side) /\ Truthy(price) /\ Truthy(quantity))
  THEN "Invalid parameters: order_id, side, price and quantity are required"
  ELSE IF AlreadyPlaced(order_id)
  THEN "Order with this ID has already been placed"
  ELSE OrderInitError(side, price, quantity)

\* place_order from the construction of the Order on, _process_order
\* included, for arguments that passed its checks: the book it makes of the
\* book b when the new Order draws the number `order`, the string it
\* returns, and the histories of its loop (entries: the length of the
\* opposite heap when the loop starts).
Accept(b, order, order_id, side, price, quantity) ==
  LET new == [order_id |-> order_id, side |-> Lower(side), price |-> price,
              quantity |-> quantity, order_number |-> order]
      mem == (order :> new) @@ b.orders
      buy == new.side = "buy"
      opposite_orders == IF buy THEN b.heap_sell_orders ELSE b.heap_buy_orders
      s == MatchLoop([orders |-> mem,
                      active |-> b.active_orders,
                      filled |-> b.filled_orders,
                      opposite |-> opposite_orders,
                      matched_orders |-> <<>>,
                      trace |-> <<>>,
                      iterations |-> 0,
                      steps |-> <<>>],
                     order)
      rests == Truthy(s.orders[order].quantity)
      current_heap == IF buy THEN b.heap_buy_orders ELSE b.heap_sell_orders
      pushed == IF rests THEN heappush(s.orders, current_heap, order)
                ELSE current_heap
  IN  [orders |-> s.orders,
       active_orders |-> IF rests THEN DictSet(s.active, order_id, order)
                         ELSE s.active,
       filled_orders |-> IF rests THEN s.filled
                         ELSE DictSet(s.filled, order_id, order),
       canceled_orders |-> b.canceled_orders,
       heap_buy_orders |-> IF buy THEN pushed ELSE s.opposite,
       heap_sell_orders |-> IF buy THEN s.opposite ELSE pushed,
       value |-> PlaceResult(s.matched_orders, s.orders[order].quantity),
       trace |-> s.trace,
       loop |-> [steps |-> s.steps, iterations |-> s.iterations,
                 entries |-> Len(opposite_orders)]]

\* The book of this OrderBook becomes what an accepted place_order made of
\* it, and the call returns; `order` is the number the new Order drew.
Return(out, order, order_id, quantity) ==
  /\ orders' = out.orders
  /\ active_orders' = out.active_orders
  /\ filled_orders' = out.filled_orders
  /\ canceled_orders' = out.canceled_orders
  /\ heap_buy_orders' = out.heap_buy_orders
  /\ heap_sell_orders' = out.heap_sell_orders
  /\ result' = [call |-> "place_order", order_id |-> order_id,
                raised |-> FALSE, value |-> out.value]
  /\ matches' = out.trace
  /\ loop' = out.loop
  /\ original_quantity' = (order :> quantity) @@ original_quantity
  /\ matched_total' = Credit((order :> 0) @@ matched_total, out.trace, order)

\* OrderBook.place_order(order_id, side, price, quantity), _process_order
\* included.
place_order(order_id, side, price, quantity) ==
  IF PlaceError(order_id, side, price, quantity) # ""
  THEN Raise("place_order", order_id, PlaceError(order_id, side, price, quantity))
  ELSE
    /\ order_number_generator' = order_number_generator + 1
    /\ Return(Accept(Book, order_number_generator, order_id, side, price, quantity),
              order_number_generator, order_id, quantity)

\* The string of cancel_order's second return statement, as the source file
\* spells it: the three characters between "Failed" and "no" are U+00E2,
\* U+20AC, U+201C.
NoSuchActiveOrder == "Failed <U+00E2><U+20AC><U+201C> no such active order"

\* The string cancel_order returns.
CancelReplyFilledForMissing(order_id) ==
  IF order_id \in DOMAIN filled_orders
  THEN "Failed - already fully filled"
  ELSE IF order_id \notin DOMAIN active_orders
  THEN "Failed - already fully filled"
  ELSE "OK"
CancelReplyNoFilledTest(order_id) ==
  IF order_id \notin DOMAIN active_orders
  THEN NoSuchActiveOrder
  ELSE "OK"
CancelReply(order_id) ==
  IF order_id \in DOMAIN filled_orders
  THEN "Failed - already fully filled"
  ELSE IF order_id \notin DOMAIN active_orders
  THEN NoSuchActiveOrder
  ELSE "OK"

\* OrderBook.cancel_order(order_id): only the branch that returns "OK" moves
\* the order from active_orders to canceled_orders.
cancel_order(order_id) ==
  /\ result' = [call |-> "cancel_order", order_id |-> order_id,
                raised |-> FALSE, value |-> CancelReply(order_id)]
  /\ matches' = <<>>
  /\ loop' = NoLoop
  /\ UNCHANGED <<order_number_generator, orders, heap_buy_orders,
                 heap_sell_orders, original_quantity, matched_total>>
  /\ IF CancelReply(order_id) = "OK"
     THEN /\ canceled_orders' = DictSet(canceled_orders, order_id,
                                        active_orders[order_id])
          /\ active_orders' = DictDel(active_orders, order_id)
          /\ UNCHANGED filled_orders
     ELSE UNCHANGED <<active_orders, filled_orders, canceled_orders>>

\* ------------------------------------------------------------- eager book
\* A reference order book without heaps and without stale entries: each side
\* is a list of its active orders in priority order, and a cancellation
\* takes the order out of its list at once.  An order is a record of its id,
\* side, price and remaining quantity.
NoReference ==
  [bids |-> << >>, asks |-> << >>, filled |-> {}, canceled |-> {}, value |-> ""]

\* The list with the order e put behind every order whose price is as good
\* as its own or better.
RECURSIVE ReferenceInsert(_, _)
ReferenceInsert(list, e) ==
  IF list = << >> THEN <<e>>
  ELSE IF (IF e.side = "buy" THEN e.price > Head(list).price
                             ELSE e.price < Head(list).price)
  THEN <<e>> \o list
  ELSE <<Head(list)>> \o ReferenceInsert(Tail(list), e)

\* The incoming order m.order is matched against the head of the opposite
\* list m.opposite while it has quantity left and the head's price crosses.
RECURSIVE ReferenceMatch(_)
ReferenceMatch(m) ==
  IF m.opposite = << >> \/ m.order.quantity = 0 THEN m
  ELSE
    LET head == Head(m.opposite)
        crosses == IF m.order.side = "buy" THEN m.order.price >= head.price
                   ELSE m.order.price <= head.price
        traded == Min(m.order.quantity, head.quantity)
        left == [head EXCEPT !.quantity = @ - traded]
        n == [m EXCEPT !.order.quantity = @ - traded,
                       !.items = Append(@, Descriptor(head.order_id, traded,
                                                      head.price))]
    IN  IF ~crosses THEN m
        ELSE IF left.quantity = 0
        THEN ReferenceMatch([n EXCEPT !.opposite = Tail(@),
                                      !.filled = @ \cup {left}])
        ELSE ReferenceMatch([n EXCEPT !.opposite = <<left>> \o Tail(@)])

\* An accepted placement on the reference book.
ReferencePlace(ref, order_id, side, price, quantity) ==
  LET order == [order_id |-> order_id, side |-> Lower(side), price |-> price,
                quantity |-> quantity]
      buy == order.side = "buy"
      m == ReferenceMatch([order |-> order,
                           opposite |-> IF buy THEN ref.asks ELSE ref.bids,
                           filled |-> ref.filled,
                           items |-> << >>])
      rests == m.order.quantity > 0
      own == IF buy THEN ref.bids ELSE ref.asks
      listed == IF rests THEN ReferenceInsert(own, m.order) ELSE own
  IN  [bids |-> IF buy THEN listed ELSE m.opposite,
       asks |-> IF buy THEN m.opposite ELSE listed,
       filled |-> IF rests THEN m.filled ELSE m.filled \cup {m.order},
       canceled |-> ref.canceled,
       value |-> IF m.items = << >> THEN "OK"
                 ELSE (IF rests THEN "Partially" ELSE "Fully")
                      \o " matched with " \o Join(m.items)]

\* A cancellation on the reference book.
ReferenceCancel(ref, order_id) ==
  LET listed == {e \in {ref.bids[i] : i \in 1..Len(ref.bids)}
                        \cup {ref.asks[i] : i \in 1..Len(ref.asks)} :
                   e.order_id = order_id}
      Others(e) == e.order_id # order_id
  IN  IF \E e \in ref.filled : e.order_id = order_id
      THEN [ref EXCEPT !.value = "Failed - already fully filled"]
      ELSE IF listed = {}
      THEN [ref EXCEPT !.value = NoSuchActiveOrder]
      ELSE [ref EXCEPT !.bids = SelectSeq(@, Others),
                       !.asks = SelectSeq(@, Others),
                       !.canceled = @ \cup listed,
                       !.value = "OK"]

\* ------------------------------------------------------------- the book
\* A second OrderBook after its __init__, and the value of its last call.
NoTwin ==
  [orders |-> << >>, active_orders |-> << >>, filled_orders |-> << >>,
   canceled_orders |-> << >>, heap_buy_orders |-> << >>,
   heap_sell_orders |-> << >>, value |-> ""]

\* OrderBook.__init__, in a fresh interpreter.
Init ==
  /\ order_number_generator = 1
  /\ orders = << >>
  /\ active_orders = << >>
  /\ filled_orders = << >>
  /\ canceled_orders = << >>
  /\ heap_buy_orders = << >>
  /\ heap_sell_orders = << >>
  /\ result = [call |-> "none", order_id |-> "", raised |-> FALSE, value |-> ""]
  /\ matches = << >>
  /\ original_quantity = << >>
  /\ matched_total = << >>
  /\ loop = NoLoop
  /\ twin = NoTwin
  /\ reference = NoReference

\* Order ids are opaque dict keys: the id of a new order is the first name
\* not yet in any of the three dicts.
Used == DOMAIN active_orders \cup DOMAIN filled_orders \cup DOMAIN canceled_orders
FreshIds(n) ==
  IF Cardinality(Used) < n THEN {IdNames[Cardinality(Used) + 1]} ELSE {}

\* place_order with an id not used before, whatever the other arguments.
Place ==
  \E order_id \in FreshIds(NumIds), args \in WellFormedArgs \cup MalformedArgs :
    place_order(order_id, args[1], args[2], args[3]) /\ UNCHANGED <<twin, reference>>

\* place_order with an id used before, or with the empty string.
PlaceAgain ==
  \E order_id \in Used \cup {""}, args \in MalformedArgs \cup {<<"Buy", 1, 1>>} :
    place_order(order_id, args[1], args[2], args[3]) /\ UNCHANGED <<twin, reference>>

\* cancel_order with any id: active, filled, canceled, unknown or empty.
Cancel ==
  \E order_id \in OrderIds \cup {""} : cancel_order(order_id) /\ UNCHANGED <<twin, reference>>

Next == Place \/ PlaceAgain \/ Cancel

Spec == Init /\ [][Next]_vars

\* The calls that change the book: well-formed placements of new ids, and
\* cancellations of active orders.
Trade ==
  \E order_id \in FreshIds(MaxOrders), args \in WellFormedArgs :
    place_order(order_id, args[1], args[2], args[3]) /\ UNCHANGED <<twin, reference>>

CancelActive ==
  \E order_id \in DOMAIN active_orders : cancel_order(order_id) /\ UNCHANGED <<twin, reference>>

NextTrading == Trade \/ CancelActive

SpecTrading == Init /\ [][NextTrading]_vars

\* ------------------------------------------------------------- two books
\* OrderBook.cancel_order(order_id) on the book b: the book it leaves and
\* the string it returns.
cancel_order_on(b, order_id) ==
  IF order_id \in DOMAIN b.filled_orders
  THEN [b EXCEPT !.value = "Failed - already fully filled"]
  ELSE IF order_id \notin DOMAIN b.active_orders
  THEN [b EXCEPT !.value = NoSuchActiveOrder]
  ELSE [b EXCEPT !.canceled_orders = DictSet(@, order_id, b.active_orders[order_id]),
                 !.active_orders = DictDel(@, order_id),
                 !.value = "OK"]

\* What a place_order call on another OrderBook instance does to this book,
\* which an accepted call of its own has just made `out`: nothing, since
\* __init__ gives each instance dicts and heaps of its own; the other
\* instance's Order only draws the number `order` from the shared generator.
ForeignPlacementShared(out, order, order_id, side, price, quantity) ==
  [Accept(out, order, order_id, side, price, quantity) EXCEPT
     !.value = out.value, !.trace = out.trace, !.loop = out.loop]
ForeignPlacement(out, order, order_id, side, price, quantity) == out

\* The numbers drawn so far by Orders of other instances than the two books.
OtherPlacements ==
  order_number_generator - 1 - Cardinality(DOMAIN orders)
    - Cardinality(DOMAIN twin.orders)

\* The twin after a call that made `out` of it.
TwinOf(out) ==
  [orders |-> out.orders, active_orders |-> out.active_orders,
   filled_orders |-> out.filled_orders, canceled_orders |-> out.canceled_orders,
   heap_buy_orders |-> out.heap_buy_orders,
   heap_sell_orders |-> out.heap_sell_orders, value |-> out.value]

\* The same accepted place_order is made on this book and then on the twin;
\* between the two, another instance may place an order.  All the Orders
\* draw their numbers from the one module-level generator.  (With no
\* placement on another instance there are no arguments of it to choose.)
SharedPlace ==
  \E order_id \in FreshIds(MaxOrders), args \in WellFormedArgs,
     foreign \in WellFormedArgs, others \in 0..1 :
    /\ OtherPlacements + others <= MaxOtherPlacements
    /\ others = 0 => foreign = args
    /\ PlaceError(order_id, args[1], args[2], args[3]) = ""
    /\ LET order == order_number_generator
           out == Accept(Book, order, order_id, args[1], args[2], args[3])
           seen == IF others = 1
                   THEN ForeignPlacement(out, order + 1, "other",
                                         foreign[1], foreign[2], foreign[3])
                   ELSE out
       IN  /\ order_number_generator' = order + others + 2
           /\ Return(seen, order, order_id, args[3])
           /\ twin' = TwinOf(Accept(twin, order + others + 1, order_id,
                                    args[1], args[2], args[3]))
           /\ UNCHANGED reference

\* The same cancel_order is made on this book and on the twin.
SharedCancel ==
  \E order_id \in DOMAIN active_orders :
    /\ cancel_order(order_id)
    /\ twin' = cancel_order_on(twin, order_id)
    /\ UNCHANGED reference

NextShared == SharedPlace \/ SharedCancel

SpecShared == Init /\ [][NextShared]_vars
\* ------------------------------------------------------------- with the eager book
\* The same accepted place_order on this book and on the reference book.
EagerPlace ==
  \E order_id \in FreshIds(MaxOrders), args \in WellFormedArgs :
    /\ place_order(order_id, args[1], args[2], args[3])
    /\ reference' = ReferencePlace(reference, order_id, args[1], args[2], args[3])
    /\ UNCHANGED twin

\* The same cancel_order, of an active order, on this book and on the
\* reference book.
EagerCancel ==
  \E order_id \in DOMAIN active_orders :
    /\ cancel_order(order_id)
    /\ reference' = ReferenceCancel(reference, order_id)
    /\ UNCHANGED twin

NextEager == EagerPlace \/ EagerCancel

SpecEager == Init /\ [][NextEager]_vars
\* ------------------------------------------------------------- claims
Refs == DOMAIN orders
ActiveRefs == {active_orders[id] : id \in DOMAIN active_orders}
FilledRefs == {filled_orders[id] : id \in DOMAIN filled_orders}
CanceledRefs == {canceled_orders[id] : id \in DOMAIN canceled_orders}
InHeap(heap, ref) == \E i \in 1..Len(heap) : heap[i] = ref
OwnHeap(ref) ==
  IF orders[ref].side = "buy" THEN heap_buy_orders ELSE heap_sell_orders

\* The last call was an accepted place_order; its order is the newest object.
Placed == result.call = "place_order" /\ ~result.raised
Incoming == order_number_generator - 1

\* a has priority over b, two orders of one side: a strictly better price
\* (higher for bids, lower for asks), or the same price and placed earlier.
Outranks(a, b) ==
  \/ IF orders[a].side = "buy" THEN orders[a].price > orders[b].price
                               ELSE orders[a].price < orders[b].price
  \/ orders[a].price = orders[b].price
     /\ orders[a].order_number < orders[b].order_number

\* The orders of the resting order's side that were active when match m was
\* made, the resting order aside.
Rivals(m) ==
  {r \in {m.active_then[id] : id \in DOMAIN m.active_then} \ {m.ref} :
     orders[r].side = orders[m.ref].side}

C2_QuantityConservation ==
  \A r \in Refs :
    /\ matched_total[r] <= original_quantity[r]
    /\ orders[r].quantity = original_quantity[r] - matched_total[r]

\* C2 witness: one order partly matched, another matched in full by more
\* than one call.
C2_Witness ==
  /\ \E r \in Refs : 0 < matched_total[r] /\ matched_total[r] < original_quantity[r]
  /\ \E r \in Refs : original_quantity[r] > 1 /\ matched_total[r] = original_quantity[r]

\* C3: a canceled order is never matched.  No call names a canceled order
\* as a counterpart, and a canceled order's remaining quantity never changes.
C3_CanceledNeverMatched ==
  [][\A id \in DOMAIN canceled_orders :
       /\ \A k \in 1..Len(matches') : matches'[k].order_id # id
       /\ orders'[canceled_orders[id]].quantity = orders[canceled_orders[id]].quantity
    ]_vars

\* C3 witness: an order was placed whose price crosses a canceled order of
\* the other side, and that order's entry has been discarded from its heap.
C3_Witness ==
  /\ Placed
  /\ \E c \in CanceledRefs :
       /\ c < Incoming
       /\ orders[c].side # orders[Incoming].side
       /\ condition(orders[Incoming].side, orders[Incoming].price, orders[c].price)
       /\ ~InHeap(OwnHeap(c), c)
       /\ orders[c].quantity = original_quantity[c]

\* C4: active_orders, filled_orders and canceled_orders never share a key.
C4_RegistryDisjoint ==
  /\ DOMAIN active_orders \cap DOMAIN filled_orders = {}
  /\ DOMAIN active_orders \cap DOMAIN canceled_orders = {}
  /\ DOMAIN filled_orders \cap DOMAIN canceled_orders = {}

\* C4 witness: each of the three dicts holds an order.
C4_Witness ==
  /\ DOMAIN active_orders # {}
  /\ DOMAIN filled_orders # {}
  /\ DOMAIN canceled_orders # {}

\* C5: terminal states are absorbing.  An id in filled_orders stays there
\* and an id in canceled_orders stays there; neither returns to
\* active_orders nor moves to the other terminal dict.
C5_TerminalAbsorbing ==
  [][/\ \A id \in DOMAIN filled_orders :
          /\ id \in DOMAIN filled_orders'
          /\ id \notin DOMAIN active_orders' \cup DOMAIN canceled_orders'
     /\ \A id \in DOMAIN canceled_orders :
          /\ id \in DOMAIN canceled_orders'
          /\ id \notin DOMAIN active_orders' \cup DOMAIN filled_orders'
    ]_vars

\* C5 witness: a filled order and a canceled order, and a place_order call
\* made on the id of one of them.
C5_Witness ==
  /\ FilledRefs # {}
  /\ CanceledRefs # {}
  /\ result.order_id \in DOMAIN filled_orders \cup DOMAIN canceled_orders
  /\ result.call = "place_order"

\* C6: place_order with an id that is a key of active_orders, filled_orders
\* or canceled_orders raises, whichever of the three holds it.
C6_DuplicateIdRaises ==
  [][(result'.call = "place_order" /\ result'.order_id \in Used)
       => result'.raised
    ]_vars

\* C6 witness: a placement was rejected for an id that is canceled.
C6_Witness ==
  /\ result.call = "place_order"
  /\ result.raised
  /\ result.order_id \in DOMAIN canceled_orders

\* The arguments place_order must reject: an empty or used id, an
\* unrecognized side, a price or a quantity that is not positive.
Malformed(order_id, side, price, quantity) ==
  \/ order_id = ""
  \/ order_id \in Used
  \/ Lower(side) \notin {"buy", "sell"}
  \/ price <= 0
  \/ quantity <= 0

\* C7: a place_order call that fails structurally changes neither the three
\* dicts, nor the heaps, nor any order's quantity; the calls that fail are
\* those with malformed arguments, so an id whose earlier placements failed
\* validation is still accepted; an accepted order is active or filled.
C7_RejectedPlacementChangesNothing ==
  /\ [](\A order_id \in OrderIds \cup {""},
           args \in WellFormedArgs \cup MalformedArgs :
          Malformed(order_id, args[1], args[2], args[3])
            <=> PlaceError(order_id, args[1], args[2], args[3]) # "")
  /\ [][result'.call = "place_order" =>
          IF result'.raised
          THEN UNCHANGED book
          ELSE result'.order_id \in
                 DOMAIN active_orders' \cup DOMAIN filled_orders'
      ]_vars

\* C7 witness: a placement of an unused id was rejected by a book that holds
\* an active order.
C7_Witness ==
  /\ result.call = "place_order"
  /\ result.raised
  /\ result.order_id \in OrderIds \ Used
  /\ ActiveRefs # {}
  /\ heap_buy_orders \o heap_sell_orders # <<>>

\* C8: cancellation is idempotent.  cancel_order of an active id returns
\* "OK" and cancels it; cancel_order of a canceled id returns the "no such
\* active order" failure and changes nothing.
C8_CancelIdempotent ==
  [][result'.call = "cancel_order" =>
       /\ result'.order_id \in DOMAIN active_orders =>
            /\ result'.value = "OK"
            /\ result'.order_id \in DOMAIN canceled_orders'
       /\ result'.order_id \in DOMAIN canceled_orders =>
            /\ result'.value = NoSuchActiveOrder
            /\ UNCHANGED book
    ]_vars

\* C8 witness: cancel_order was called on an id already canceled, after a
\* later order was accepted.
C8_Witness ==
  /\ result.call = "cancel_order"
  /\ result.order_id \in DOMAIN canceled_orders
  /\ result.value # "OK"
  /\ canceled_orders[result.order_id] < Incoming

\* C9: an order whose quantity reached 0 cannot be canceled: cancel_order on
\* its id returns "Failed - already fully filled" and leaves it filled.
C9_FilledNotCancelable ==
  [][(/\ result'.call = "cancel_order"
      /\ \E r \in Refs : /\ orders[r].order_id = result'.order_id
                         /\ orders[r].quantity = 0)
       => /\ result'.value = "Failed - already fully filled"
          /\ result'.order_id \in DOMAIN filled_orders'
          /\ UNCHANGED book
    ]_vars

\* C9 witness: cancel_order was called on an order that rested in the book
\* and was then filled as a counterpart.
C9_Witness ==
  /\ result.call = "cancel_order"
  /\ result.order_id \in DOMAIN filled_orders
  /\ LET r == filled_orders[result.order_id]
     IN  /\ orders[r].quantity = 0
         /\ \A o \in Refs : o < r => orders[o].side = orders[r].side
         /\ \E o \in Refs : o > r /\ orders[o].side # orders[r].side

\* C10: cancel_order of a non-empty id does not raise and returns one of "OK",
\* "Failed - already fully filled" and "Failed <U+2013> no such active
\* order" (U+2013 an en dash), the last for an id neither filled nor active.
C10_CancelReturnsDocumentedString ==
  (result.call = "cancel_order" /\ result.order_id # "") =>
    /\ ~result.raised
    /\ result.value \in {"OK", "Failed - already fully filled",
                         "Failed <U+2013> no such active order"}
    /\ (/\ result.order_id \notin DOMAIN filled_orders \cup DOMAIN active_orders
        /\ result.value # "OK")
         => result.value = "Failed <U+2013> no such active order"

\* The descriptors of the matches of the last call, written from the match
\* records: the counterpart's id, the matched quantity, the counterpart's
\* own price.
RECURSIVE NamedCounterparts(_)
NamedCounterparts(trace) ==
  LET first == trace[1].order_id \o " (" \o ToString(trace[1].quantity)
               \o " @ " \o ToString(orders[trace[1].ref].price) \o ")"
  IN  IF Len(trace) = 1 THEN first
      ELSE first \o " and " \o NamedCounterparts(Tail(trace))

\* C11: the result of an accepted place_order tells what happened.  It is
\* "OK" exactly when no match was made, and then the order is active with
\* its whole original quantity; it is "Fully matched with" and the
\* descriptors, in the order of the matches, exactly when a match was made
\* and the order ended with quantity 0, and then the order is filled; it is
\* "Partially matched with" and the descriptors exactly when a match was
\* made and a remainder is left, and then the order is active.
C11_ResultClassifiesOutcome ==
  Placed =>
    LET id == result.order_id
        quantity == orders[Incoming].quantity
    IN  /\ orders[Incoming].order_id = id
        /\ (result.value = "OK") <=> (matches = <<>>)
        /\ matches = <<>> =>
             /\ id \in DOMAIN active_orders /\ active_orders[id] = Incoming
             /\ quantity = original_quantity[Incoming]
        /\ matches # <<>> =>
             /\ (result.value = "Fully matched with " \o NamedCounterparts(matches))
                  <=> quantity = 0
             /\ (result.value = "Partially matched with " \o NamedCounterparts(matches))
                  <=> quantity > 0
             /\ quantity = 0 =>
                  id \in DOMAIN filled_orders /\ filled_orders[id] = Incoming
             /\ quantity > 0 =>
                  id \in DOMAIN active_orders /\ active_orders[id] = Incoming

\* C11 witness: an order was matched against two counterparts of different
\* prices after another order had rested with "OK".
C11_Witness ==
  /\ Placed
  /\ Len(matches) = 2
  /\ matches[1].price # matches[2].price
  /\ orders[Incoming].quantity = 0
  /\ original_quantity[Incoming] = 2

\* The quantity left, before match k of the last call was made, to the
\* incoming order and to the resting order of that match: what each has now
\* plus what the matches from k on took from it.
RECURSIVE TakenFrom(_, _)
TakenFrom(trace, k) ==
  IF k > Len(trace) THEN 0 ELSE trace[k].quantity + TakenFrom(trace, k + 1)

IncomingBefore(k) == orders[Incoming].quantity + TakenFrom(matches, k)
RestingBefore(k) == orders[matches[k].ref].quantity + matches[k].quantity

\* C12: every match is between a buy and a sell with buy price >= sell
\* price; its quantity is the smaller of what the incoming order and the
\* resting order had left at that moment, and at least 1; the price in its
\* descriptor is the resting order's price.
C12_MatchWellFormed ==
  Placed =>
    /\ \A k \in 1..Len(matches) :
         LET resting == orders[matches[k].ref]
             incoming == orders[Incoming]
             buy == IF incoming.side = "buy" THEN incoming ELSE resting
             sell == IF incoming.side = "buy" THEN resting ELSE incoming
         IN  /\ buy.side = "buy" /\ sell.side = "sell"
             /\ buy.price >= sell.price
             /\ matches[k].quantity >= 1
             /\ matches[k].quantity <= IncomingBefore(k)
             /\ matches[k].quantity <= RestingBefore(k)
             /\ matches[k].quantity \in {IncomingBefore(k), RestingBefore(k)}
             /\ matches[k].order_id = resting.order_id
             /\ matches[k].price = resting.price
    /\ matches # <<>> =>
         result.value \in
           {kind \o " matched with " \o NamedCounterparts(matches) :
              kind \in {"Fully", "Partially"}}

\* C12 witness: a match at a resting price different from the incoming
\* order's price, for less than the incoming order had left.
C12_Witness ==
  /\ Placed
  /\ \E k \in 1..Len(matches) :
       /\ orders[matches[k].ref].price # orders[Incoming].price
       /\ matches[k].quantity < IncomingBefore(k)
       /\ matches[k].quantity = RestingBefore(k)

\* C14: the book is never crossed between calls: every active buy order's
\* price is strictly lower than every active sell order's price.
C14_BookNeverCrossed ==
  \A b \in ActiveRefs, s \in ActiveRefs :
    (orders[b].side = "buy" /\ orders[s].side = "sell")
      => orders[b].price < orders[s].price

\* C14 witness: an incoming order matched, stopped at a resting order whose
\* price it does not cross, and rests with its remainder opposite that
\* order.
C14_Witness ==
  /\ Placed
  /\ matches # <<>>
  /\ Incoming \in ActiveRefs
  /\ \E r \in ActiveRefs : orders[r].side # orders[Incoming].side

\* C15: an active order has quantity > 0 and a filled order has quantity 0;
\* an order whose quantity reaches 0 is in filled_orders at the end of the
\* same call; a filled order's quantity never changes afterwards.
C15_FilledMeansZero ==
  /\ [](/\ \A r \in ActiveRefs : orders[r].quantity > 0
        /\ \A r \in FilledRefs : orders[r].quantity = 0)
  /\ [][/\ \A r \in FilledRefs : orders'[r].quantity = orders[r].quantity
        /\ \A r \in DOMAIN orders' :
             (orders'[r].quantity = 0 /\ (r \in Refs => orders[r].quantity > 0))
               => /\ orders'[r].order_id \in DOMAIN filled_orders'
                  /\ filled_orders'[orders'[r].order_id] = r
                  /\ orders'[r].order_id \notin DOMAIN active_orders'
       ]_vars

\* C15 witness: a call has just brought both the incoming order and a
\* resting order that an earlier call had partly filled to quantity 0.
C15_Witness ==
  /\ Placed
  /\ Incoming \in FilledRefs
  /\ \E k \in 1..Len(matches) :
       /\ matches[k].ref \in FilledRefs
       /\ matched_total[matches[k].ref] > matches[k].quantity

\* The number of entries of a heap that refer to the object ref.
Entries(heap, ref) == Cardinality({i \in 1..Len(heap) : heap[i] = ref})

\* C18: the heaps agree with the registry.  Every active order has exactly
\* one entry in the heap of its own side and none in the other heap, and no
\* order, active or not, has two entries in a heap.
C18_HeapsMatchRegistry ==
  /\ \A id \in DOMAIN active_orders :
       LET r == active_orders[id]
       IN  /\ orders[r].order_id = id
           /\ Entries(heap_buy_orders, r) = (IF orders[r].side = "buy" THEN 1 ELSE 0)
           /\ Entries(heap_sell_orders, r) = (IF orders[r].side = "sell" THEN 1 ELSE 0)
  /\ \A r \in Refs :
       /\ Entries(heap_buy_orders, r) <= 1
       /\ Entries(heap_sell_orders, r) <= 1
       /\ \A o \in Refs \ {r} : orders[o].order_id # orders[r].order_id
  /\ \A i \in 1..Len(heap_buy_orders) : heap_buy_orders[i] \in Refs
  /\ \A i \in 1..Len(heap_sell_orders) : heap_sell_orders[i] \in Refs

\* C18 witness: a resting order was partly filled, so popped and pushed
\* again, while its heap also holds the entry of a canceled order.
C18_Witness ==
  /\ Placed
  /\ \E k \in 1..Len(matches) :
       LET r == matches[k].ref
       IN  /\ r \in ActiveRefs
           /\ Entries(OwnHeap(r), r) = 1
           /\ \E c \in CanceledRefs : c # r /\ Entries(OwnHeap(r), c) = 1

\* C20: a place_order call leaves at most one resting order partly filled.
\* Every counterpart of the call but the last is filled, with quantity 0; a
\* counterpart that stays active, with a reduced and positive quantity, is
\* the last one, and then the incoming order was fully matched.  So a
\* partially matched incoming order has only filled counterparts.
C20_OnlyLastCounterpartPartial ==
  Placed =>
    /\ \A k \in 1..Len(matches) :
         LET r == matches[k].ref
         IN  \/ /\ r \in FilledRefs
                /\ r \notin ActiveRefs
                /\ orders[r].quantity = 0
             \/ /\ k = Len(matches)
                /\ r \in ActiveRefs
                /\ 0 < orders[r].quantity
                /\ orders[r].quantity < original_quantity[r]
                /\ orders[Incoming].quantity = 0
                /\ Incoming \in FilledRefs
    /\ \A j \in 1..Len(matches), k \in 1..Len(matches) :
         j # k => matches[j].ref # matches[k].ref
    /\ orders[Incoming].quantity > 0 =>
         \A k \in 1..Len(matches) : matches[k].ref \in FilledRefs

\* C20 witness: a call filled one counterpart and left the next one, its
\* last, active with part of its quantity.
C20_Witness ==
  /\ Placed
  /\ Len(matches) = 2
  /\ matches[1].ref \in FilledRefs
  /\ matches[2].ref \in ActiveRefs
  /\ orders[matches[2].ref].quantity > 0

\* C16: the frame of cancel_order.  A cancel_order that returns "OK" moves
\* the one id from active_orders to canceled_orders and changes nothing
\* else: not a heap, not an order's fields, not another id's place in the
\* three dicts.  A cancel_order that returns anything else changes nothing.
C16_CancelFrame ==
  [][result'.call = "cancel_order" =>
       LET id == result'.order_id
       IN  IF result'.value = "OK"
           THEN /\ id \in DOMAIN active_orders
                /\ DOMAIN active_orders' = DOMAIN active_orders \ {id}
                /\ DOMAIN canceled_orders' = DOMAIN canceled_orders \cup {id}
                /\ id \notin DOMAIN canceled_orders
                /\ canceled_orders'[id] = active_orders[id]
                /\ \A o \in DOMAIN active_orders' : active_orders'[o] = active_orders[o]
                /\ \A o \in DOMAIN canceled_orders :
                     canceled_orders'[o] = canceled_orders[o]
                /\ UNCHANGED <<orders, filled_orders, heap_buy_orders,
                               heap_sell_orders, order_number_generator>>
           ELSE /\ ~(id \in DOMAIN active_orders /\ id \notin DOMAIN filled_orders)
                /\ UNCHANGED book
                /\ UNCHANGED order_number_generator
    ]_vars

\* C16 witness: an order was canceled while another id was already canceled
\* and its own heap entry stayed where it was.
C16_Witness ==
  /\ result.call = "cancel_order"
  /\ result.value = "OK"
  /\ Cardinality(DOMAIN canceled_orders) = 2
  /\ LET r == canceled_orders[result.order_id]
     IN  InHeap(OwnHeap(r), r)

\* The iterations of the last call's loop that took an entry out of the
\* opposite heap.
Removals == {i \in 1..Len(loop.steps) : loop.steps[i] \in {"stale", "fill"}}

\* The heap opposite to the order the last call placed.
OppositeHeap ==
  IF orders[Incoming].side = "buy" THEN heap_sell_orders ELSE heap_buy_orders

\* C19: place_order terminates.  Every iteration of its loop either
\* discards one stale entry, or fills a resting order and removes it, or is
\* the last one; each of the first two kinds shortens the opposite heap by
\* one entry, so the iterations of a call are at most the entries the
\* opposite heap had when the call began, plus one.
C19_LoopBounded ==
  Placed =>
    /\ loop.iterations = Len(loop.steps)
    /\ \A i \in 1..Len(loop.steps) :
         \/ loop.steps[i] \in {"stale", "fill"}
         \/ /\ i = Len(loop.steps)
            /\ loop.steps[i] = "break" \/ orders[Incoming].quantity = 0
    /\ Len(OppositeHeap) = loop.entries - Cardinality(Removals)
    /\ loop.iterations <= loop.entries + 1
    /\ Cardinality({i \in 1..Len(loop.steps) :
                      loop.steps[i] \in {"fill", "partial"}}) = Len(matches)

\* C19 witness: a call whose loop discarded a stale entry and then, in a
\* further iteration, matched or stopped at an active resting order.
C19_Witness ==
  /\ Placed
  /\ Len(loop.steps) = 2
  /\ loop.steps[1] = "stale"
  /\ loop.steps[2] \in {"fill", "partial", "break"}
  /\ loop.entries = 2

\* What a book records of its orders: for every id, the dicts that hold it
\* and the side, price and remaining quantity of its order.
Registry(b) ==
  [id \in DOMAIN b.active_orders \cup DOMAIN b.filled_orders
            \cup DOMAIN b.canceled_orders |->
     LET order == b.orders[IF id \in DOMAIN b.active_orders THEN b.active_orders[id]
                           ELSE IF id \in DOMAIN b.filled_orders
                           THEN b.filled_orders[id]
                           ELSE b.canceled_orders[id]]
     IN  [active |-> id \in DOMAIN b.active_orders,
          filled |-> id \in DOMAIN b.filled_orders,
          canceled |-> id \in DOMAIN b.canceled_orders,
          order_id |-> order.order_id, side |-> order.side,
          price |-> order.price, quantity |-> order.quantity]]

\* The number of the order a book holds under id.
NumberOf(b, id) ==
  IF id \in DOMAIN b.active_orders THEN b.active_orders[id]
  ELSE IF id \in DOMAIN b.filled_orders THEN b.filled_orders[id]
  ELSE b.canceled_orders[id]

\* C13: determinism per book.  Two OrderBooks given the same sequence of
\* calls return the same string at every call and record the same orders,
\* although their Orders draw different numbers from the shared generator
\* and placements on another instance fall between the two books' calls.
C13_SameCallsSameResults ==
  /\ twin.value = result.value
  /\ Registry(twin) = Registry(Book)

\* C13 witness: a match was made by time priority, against the earlier of
\* two resting orders of one price, whose numbers lie further apart in one
\* book than in the other because of a placement on another instance.
C13_Witness ==
  /\ Placed
  /\ \E k \in 1..Len(matches) :
       \E r \in Rivals(matches[k]) :
         /\ orders[r].price = orders[matches[k].ref].price
         /\ r - matches[k].ref #
              NumberOf(twin, orders[r].order_id) - NumberOf(twin, matches[k].order_id)

\* The orders an OrderBook dict holds, as the reference book records them.
Recorded(dict) ==
  {[order_id |-> id, side |-> orders[dict[id]].side,
    price |-> orders[dict[id]].price, quantity |-> orders[dict[id]].quantity] :
     id \in DOMAIN dict}

\* C17: lazy deletion cannot be told from eager removal.  Given the same
\* calls, the book and a reference book that takes a canceled order out of
\* its priority-ordered list at once return the same string at every call,
\* and after every call the three dicts hold the orders the reference book
\* has listed, filled and canceled.
C17_LazyEqualsEager ==
  /\ reference.value = result.value
  /\ Recorded(active_orders) =
       {reference.bids[i] : i \in 1..Len(reference.bids)}
         \cup {reference.asks[i] : i \in 1..Len(reference.asks)}
  /\ Recorded(filled_orders) = reference.filled
  /\ Recorded(canceled_orders) = reference.canceled

\* C17 witness: a call found the stale entry of a canceled order at the top
\* of the opposite heap, discarded it and matched the next order; the
\* reference book matched that order too.
C17_Witness ==
  /\ Placed
  /\ Len(loop.steps) >= 2
  /\ loop.steps[1] = "stale"
  /\ matches # <<>>
  /\ reference.value = result.value
  /\ reference.canceled # {}

====
